---- MODULE Spec2Model ----
(***************************************************************************)
(* Model of configure_platform.py: a multi-project key/value configuration *)
(* store kept in one JSON file (DATA_FILE), written by a FastAPI surface   *)
(* (get/set/delete/batch set/batch delete) and by a Streamlit UI session   *)
(* that holds its own copy of the store in st.session_state.projects.      *)
(*                                                                         *)
(* A pandas DataFrame is modelled as [cols, rows]: rows is the sequence of *)
(* (key, value) records, cols tells whether the frame has the 'key' and    *)
(* 'value' columns.  pd.DataFrame([]) (an empty project read back from the *)
(* file) has no columns, pd.DataFrame(columns=['key','value']) has them.   *)
(* A store (a Python dict, insertion ordered) is a sequence of projects.   *)
(***************************************************************************)
EXTENDS Integers, Sequences, FiniteSets, TLC

\* ---------------------------------------------------------------- bounds
MaxEntries == 3      \* most rows one project holds
MaxBatch == 2        \* most pairs/keys/rows in one batch request or file
MaxSteps == 2        \* most operations in one behaviour

Names == {"p1", "p2"}
Keys == {"k1", "k2"}
Values == {"v1", "v2"}

None == "None"
Null == "null"

\* ------------------------------------------------------- pure helpers
Row(k, v) == [key |-> k, value |-> v]

KeysOf(rows) == {rows[i].key : i \in 1..Len(rows)}

Range(q) == {q[i] : i \in 1..Len(q)}

NamesOf(store) == {store[i].name : i \in 1..Len(store)}

\* dict.get(name): position of the project in the store, 0 when absent
IndexOf(store, name) ==
    IF name \in NamesOf(store)
    THEN CHOOSE i \in 1..Len(store) : store[i].name = name
    ELSE 0

RowsOf(store, name) == store[IndexOf(store, name)].rows

\* projects[name] = frame on an existing name: the dict keeps its position
PutFrame(store, name, frame) ==
    [i \in 1..Len(store) |-> IF store[i].name = name THEN frame ELSE store[i]]

\* rows[rows['key'] != k] and rows[~rows['key'].isin(ks)]: a boolean-mask filter
RECURSIVE DropKeys(_, _)
DropKeys(rows, ks) ==
    IF rows = <<>> THEN <<>>
    ELSE IF Head(rows).key \in ks THEN DropKeys(Tail(rows), ks)
         ELSE <<Head(rows)>> \o DropKeys(Tail(rows), ks)

\* config[k] = v on a Python dict: an existing key keeps its place
DictSet(d, k, v) ==
    IF k \in KeysOf(d)
    THEN [i \in 1..Len(d) |-> IF d[i].key = k THEN Row(k, v) ELSE d[i]]
    ELSE Append(d, Row(k, v))

\* for k, v in pairs: config[k] = v
RECURSIVE DictUpdate(_, _)
DictUpdate(d, pairs) ==
    IF pairs = <<>> THEN d
    ELSE DictUpdate(DictSet(d, Head(pairs).key, Head(pairs).value), Tail(pairs))

\* current_project.set_index('key').to_dict()['value']: a dict built row by
\* row, so a repeated key keeps its first place and its last value
ToConfig(rows) == DictUpdate(<<>>, rows)

\* the value get_config reads: set_index('key').loc[key, 'value'] is the
\* scalar when the key occurs once and a Series of all its values otherwise
Lookup(rows, k) ==
    LET hits == SelectSeq(rows, LAMBDA r : r.key = k)
    IN IF Len(hits) = 1 THEN hits[1].value ELSE "Series"

\* ---------------------------------------------------------- persistence
\* pd.DataFrame(v) for one project's records
DataFrame(name, rows) == [name |-> name, cols |-> rows # <<>>, rows |-> rows]

\* load_projects(): {k: pd.DataFrame(v) for k, v in data.items()}
load_projects(data) ==
    [i \in 1..Len(data) |-> DataFrame(data[i].name, data[i].rows)]

\* save_projects(): {k: v.to_dict(orient='records') for k, v in projects.items()}
to_records(projects) ==
    [i \in 1..Len(projects) |-> [name |-> projects[i].name, rows |-> projects[i].rows]]

\* DataFrame.empty: some axis has length 0
Empty(frame) == ~frame.cols \/ frame.rows = <<>>

\* pd.DataFrame(list(config.items()), columns=['key', 'value'])
FrameOf(name, config) == [name |-> name, cols |-> TRUE, rows |-> config]

\* ------------------------------------------------------------- state
VARIABLES
    file,             \* "missing" | "ok" | "malformed": DATA_FILE absent, JSON, or no JSON
    disk,             \* the records in DATA_FILE: <<[name, rows]>>
    projects,         \* st.session_state.projects: <<[name, cols, rows]>>
    current_project,  \* st.session_state.current_project: None or a name
    session,          \* "ready" | "crashed": whether 'projects' is in st.session_state
    last,             \* the last operation, its arguments and its response
    steps             \* operations performed so far

vars == <<file, disk, session, projects, current_project, last, steps>>

\* what a handler hands back: response, and the records it saved (if any)
Response(outcome, value, count) ==
    [outcome |-> outcome, value |-> value, count |-> count, wrote |-> FALSE, data |-> <<>>]

Saved(outcome, value, count, store) ==
    [outcome |-> outcome, value |-> value, count |-> count, wrote |-> TRUE,
     data |-> to_records(store)]

\* --------------------------------------------------------- API handlers
\* Each takes the records load_projects() reads from the file.  Outcomes are
\* named after the branch that raises: "EmptyProject" is the 404 of the
\* `elif current_project.empty` branch (in set_config and delete_config its
\* detail text is the one of a missing key), "InternalError" an exception no
\* handler catches.

get_config(data, p, k) ==
    LET projs == load_projects(data)
        i == IndexOf(projs, p)
    IN IF i = 0 THEN Response("ProjectNotFound", Null, 0)
       ELSE IF ~projs[i].cols THEN Response("InternalError", Null, 0)  \* KeyError: 'key'
       ELSE IF k \notin KeysOf(projs[i].rows) THEN Response("KeyNotFound", Null, 0)
       ELSE Response("ok", Lookup(projs[i].rows, k), 0)

\* set_config without its `elif current_project.empty` branch
set_config_no_empty_check(data, p, k, v) ==
    LET projs == load_projects(data)
        i == IndexOf(projs, p)
    IN IF i = 0 THEN Response("ProjectNotFound", Null, 0)
       ELSE LET config == DictSet(ToConfig(projs[i].rows), k, v)
            IN Saved("ok", v, 0, PutFrame(projs, p, FrameOf(p, config)))

set_config(data, p, k, v) ==
    LET projs == load_projects(data)
        i == IndexOf(projs, p)
    IN IF i = 0 THEN Response("ProjectNotFound", Null, 0)
       ELSE IF Empty(projs[i]) THEN Response("EmptyProject", Null, 0)
       ELSE LET config == DictSet(ToConfig(projs[i].rows), k, v)
            IN Saved("ok", v, 0, PutFrame(projs, p, FrameOf(p, config)))

delete_config(data, p, k) ==
    LET projs == load_projects(data)
        i == IndexOf(projs, p)
    IN IF i = 0 THEN Response("ProjectNotFound", Null, 0)
       ELSE IF Empty(projs[i]) THEN Response("EmptyProject", Null, 0)
       ELSE LET config == ToConfig(projs[i].rows)
                value == IF k \in KeysOf(config) THEN Lookup(config, k) ELSE Null
            IN Saved("ok", value, 0, PutFrame(projs, p, FrameOf(p, DropKeys(config, {k}))))

batch_set_config(data, p, updates) ==
    LET projs == load_projects(data)
        i == IndexOf(projs, p)
    IN IF i = 0 THEN Response("ProjectNotFound", Null, 0)
       ELSE IF Empty(projs[i]) THEN Response("EmptyProject", Null, 0)
       ELSE LET config == DictUpdate(ToConfig(projs[i].rows), updates)
            IN Saved("ok", Null, Len(updates), PutFrame(projs, p, FrameOf(p, config)))

\* for key in keys: if key in config: del config[key]; deleted_count += 1
RECURSIVE RemoveEach(_, _, _)
RemoveEach(config, ks, n) ==
    IF ks = <<>> THEN [config |-> config, deleted_count |-> n]
    ELSE IF Head(ks) \in KeysOf(config)
         THEN RemoveEach(DropKeys(config, {Head(ks)}), Tail(ks), n + 1)
         ELSE RemoveEach(config, Tail(ks), n)

batch_remove_config(data, p, ks) ==
    LET projs == load_projects(data)
        i == IndexOf(projs, p)
    IN IF i = 0 THEN Response("ProjectNotFound", Null, 0)
       ELSE IF Empty(projs[i]) THEN Response("EmptyProject", Null, 0)
       ELSE LET r == RemoveEach(ToConfig(projs[i].rows), ks, 0)
            IN Saved("ok", Null, r.deleted_count, PutFrame(projs, p, FrameOf(p, r.config)))

\* ---------------------------------------------------------- UI handlers
\* Each takes st.session_state.projects and st.session_state.current_project
\* and hands back the outcome shown to the user and the new session state;
\* wrote tells whether save_projects(st.session_state.projects) ran.

Shown(outcome, projs, cur) ==
    [outcome |-> outcome, projects |-> projs, current |-> cur, wrote |-> FALSE,
     session |-> "ready"]

Stored(projs, cur) ==
    [outcome |-> "ok", projects |-> projs, current |-> cur, wrote |-> TRUE,
     session |-> "ready"]

FrameAt(projs, cur) == projs[IndexOf(projs, cur)]

\* the selectbox at the top of every script run: with projects and no
\* current project, the first project becomes the current one
selectbox(projs, cur) ==
    IF projs # <<>> /\ cur = None THEN projs[1].name ELSE cur

\* first script run of a session: the store is read from the file, or is
\* empty when the file does not exist; json.load() raises on a malformed
\* file, 'projects' is never set and no widget is reached
session_init(f, data) ==
    LET projs == IF f = "ok" THEN load_projects(data) ELSE <<>>
    IN IF f = "malformed"
       THEN [outcome |-> "StorageError", projects |-> <<>>, current |-> None,
             wrote |-> FALSE, session |-> "crashed"]
       ELSE Shown("ok", projs, selectbox(projs, None))

\* the create button without `st.session_state.current_project = new_project`
ui_create_project_keeps_selection(projs, cur, new_project) ==
    IF new_project \in NamesOf(projs) THEN Shown("AlreadyExists", projs, cur)
    ELSE Stored(Append(projs, [name |-> new_project, cols |-> TRUE, rows |-> <<>>]),
                cur)

ui_create_project(projs, cur, new_project) ==
    IF new_project \in NamesOf(projs) THEN Shown("AlreadyExists", projs, cur)
    ELSE Stored(Append(projs, [name |-> new_project, cols |-> TRUE, rows |-> <<>>]),
                new_project)

ui_delete_project(projs, cur, confirm_project) ==
    IF confirm_project = cur
    THEN LET rest == SelectSeq(projs, LAMBDA f : f.name # cur)
         IN Stored(rest, IF rest = <<>> THEN None ELSE rest[1].name)
    ELSE Shown("ConfirmationMismatch", projs, cur)

ui_add_config(projs, cur, key, value) ==
    LET current_configs == FrameAt(projs, cur)
    IN IF ~current_configs.cols THEN Shown("InternalError", projs, cur)  \* KeyError: 'key'
       ELSE IF key \in KeysOf(current_configs.rows) THEN Shown("KeyAlreadyExists", projs, cur)
       ELSE Stored(PutFrame(projs, cur,
                       FrameOf(cur, Append(current_configs.rows, Row(key, value)))), cur)

\* .loc[current_configs['key'] == selected_key, 'value'] = new_value
ui_edit_config(projs, cur, selected_key, new_value) ==
    LET rows == FrameAt(projs, cur).rows
    IN Stored(PutFrame(projs, cur,
                  FrameOf(cur, [i \in 1..Len(rows) |->
                      IF rows[i].key = selected_key THEN Row(selected_key, new_value)
                      ELSE rows[i]])), cur)

ui_delete_config(projs, cur, selected_key) ==
    Stored(PutFrame(projs, cur,
               FrameOf(cur, DropKeys(FrameAt(projs, cur).rows, {selected_key}))), cur)

\* batch add that skips the rows whose key exists and adds the others
ui_batch_add_partial(projs, cur, batch_data) ==
    LET frame == FrameAt(projs, cur)
        existing_keys == IF Empty(frame) THEN {} ELSE KeysOf(frame.rows)
    IN Stored(PutFrame(projs, cur,
                  FrameOf(cur, frame.rows \o DropKeys(batch_data, existing_keys))), cur)

ui_batch_add(projs, cur, batch_data) ==
    LET frame == FrameAt(projs, cur)
        existing_keys == IF Empty(frame) THEN {} ELSE KeysOf(frame.rows)
        new_keys == KeysOf(batch_data)
        duplicates == existing_keys \cap new_keys
    IN IF duplicates # {} THEN Shown("DuplicateKeys", projs, cur)
       ELSE Stored(PutFrame(projs, cur, FrameOf(cur, frame.rows \o batch_data)), cur)

\* the script run with an uploaded file, up to the two buttons: read_csv,
\* json.load or yaml.safe_load and the checks on the result.  st.stop()
\* ends the run; an exception ends in one of the two handlers below the
\* buttons.
parse_upload(u) ==
    IF u.kind = "malformed"
    THEN [outcome |-> IF u.fmt = "yaml" THEN "ParseError" ELSE "FileProcessingFailed",
          batch_data |-> <<>>]
    ELSE IF u.kind = "no_columns"
    THEN [outcome |-> "InvalidSchema", batch_data |-> <<>>]
    ELSE IF u.kind = "not_mapping"
    THEN [outcome |-> IF u.fmt = "yaml" THEN "InvalidSchema" ELSE "FileProcessingFailed",
          batch_data |-> <<>>]  \* json: 'list' object has no attribute 'items'
    ELSE [outcome |-> "ok", batch_data |-> u.rows]

\* batch_data['key']
KeyColumn(batch_data) == [i \in 1..Len(batch_data) |-> batch_data[i].key]

\* only batch_data['key'] is read: batch_keys is that column
ui_batch_delete(projs, cur, batch_keys) ==
    LET frame == FrameAt(projs, cur)
    IN IF ~frame.cols THEN Shown("FileProcessingFailed", projs, cur)  \* KeyError, caught
       ELSE Stored(PutFrame(projs, cur,
                       FrameOf(cur, DropKeys(frame.rows, Range(batch_keys)))), cur)

\* ------------------------------------------------------------- inputs
SeqsUpTo(S, n) == UNION {[1..m -> S] : m \in 0..n}

Rows == {Row(k, v) : k \in Keys, v \in Values}

\* a parsed upload: the rows of a CSV file may repeat a key
BatchFiles == SeqsUpTo(Rows, MaxBatch)

\* ConfigBatchUpdate.updates, a dict: no key twice
UpdateDicts == {u \in SeqsUpTo(Rows, MaxBatch) : Cardinality(KeysOf(u)) = Len(u)}

\* ConfigBatchDelete.keys, a list
KeyLists == SeqsUpTo(Keys, MaxBatch)

\* the file types st.file_uploader accepts
Formats == {"csv", "json", "yaml"}

\* a value of a JSON or YAML member that is itself a mapping
Nested == "mapping"

NoUpload == <<>>

Upload(fmt, kind, rows) == [fmt |-> fmt, kind |-> kind, rows |-> rows]

\* the files a user can upload: rows, a mapping with a nested value, text
\* the parser rejects, a CSV file without the two columns, a root that is no
\* mapping.  A JSON or YAML mapping cannot repeat a key, a CSV file can; a
\* CSV file that repeats none parses to the frame the JSON mapping with the
\* same members parses to, so those rows are uploaded as JSON only.
Uploads ==
    {Upload("csv", "rows", b) : b \in BatchFiles \ UpdateDicts}
    \cup {Upload("json", "rows", b) : b \in UpdateDicts}
    \cup {Upload(f, "nested", <<Row(k, Nested)>>) : f \in {"json", "yaml"}, k \in Keys}
    \cup {Upload(f, "malformed", <<>>) : f \in Formats}
    \cup {Upload("csv", "no_columns", <<>>)}
    \cup {Upload(f, "not_mapping", <<>>) : f \in {"json", "yaml"}}

\* the uploads tried with the delete button, which reads the key column
\* only: one value stands for all
KeyFiles ==
    {u \in Uploads : \A i \in 1..Len(u.rows) : u.rows[i].value \in {"v1", Nested}}

\* contents DATA_FILE can have when the processes start
InitFiles ==
    { <<>>,
      <<[name |-> "p1", rows |-> <<Row("k1", "v1")>>]>>,
      <<[name |-> "p1", rows |-> <<Row("k1", "v1"), Row("k2", "v2")>>],
        [name |-> "p2", rows |-> <<>>]>>,
      <<[name |-> "p2", rows |-> <<Row("k2", "v1")>>],
        [name |-> "p1", rows |-> <<Row("k1", "v1"), Row("k2", "v2")>>]>> }

Fits(store) == \A i \in 1..Len(store) : Len(store[i].rows) <= MaxEntries

\* HTTPException(status_code=404, ...) for the three not-found answers; an
\* exception no handler catches is answered with 500
StatusOf(outcome) ==
    IF outcome = "ok" THEN 200
    ELSE IF outcome \in {"ProjectNotFound", "KeyNotFound", "EmptyProject"} THEN 404
    ELSE 500

\* how a call of save_projects() can end: it writes the file; open() fails
\* and the file stays as it was; or the write fails after open(DATA_FILE, 'w')
\* has truncated the file, which is then no JSON document
IoOutcomes == {"ok", "open_fails", "dump_fails"}

\* save_projects(projects) on the file f holding data: the file afterwards,
\* and "StorageError" when it raised HTTPException(500)
save_projects(io, f, data, records) ==
    IF io = "ok" THEN [file |-> "ok", disk |-> records, outcome |-> "ok"]
    ELSE IF io = "open_fails" THEN [file |-> f, disk |-> data, outcome |-> "StorageError"]
    ELSE [file |-> "malformed", disk |-> <<>>, outcome |-> "StorageError"]

\* load_projects() guarded by os.path.exists() as at session start: a
\* missing file reads as the empty store
api_load_missing_as_empty(f, r) ==
    IF f # "malformed" THEN r ELSE Response("StorageError", Null, 0)

\* load_projects() at the head of an API handler: open() or json.load()
\* raises on a missing or malformed file and the handler r never runs
api_load(f, r) ==
    IF f = "ok" THEN r ELSE Response("StorageError", Null, 0)

Op(op, p, k, ks, arg, r) ==
    [op |-> op, project |-> p, key |-> k, keys |-> ks, arg |-> arg, upload |-> NoUpload,
     outcome |-> r.outcome, value |-> r.value, count |-> r.count, wrote |-> r.wrote]

Init ==
    /\ file \in {"missing", "ok", "malformed"}
    /\ disk \in (IF file = "ok" THEN InitFiles ELSE {<<>>})
    /\ session = session_init(file, disk).session
    /\ projects = session_init(file, disk).projects
    /\ current_project = session_init(file, disk).current
    /\ last = Op("start", None, Null, {}, <<>>, Response("ok", Null, 0))
    /\ steps = 0

\* ------------------------------------------------------------ actions
\* One API request: load_projects(), the handler, and save_projects() when
\* the handler reaches it (io tells how that call ends).
Api(op, p, k, ks, arg, r, io) ==
    LET res == api_load(file, r)
        sv == save_projects(io, file, disk, res.data)
    IN /\ steps < MaxSteps
       /\ res.wrote => Fits(res.data)
       /\ ~res.wrote => io = "ok"
       /\ disk' = IF res.wrote THEN sv.disk ELSE disk
       /\ file' = IF res.wrote THEN sv.file ELSE file
       /\ last' = IF res.wrote /\ sv.outcome # "ok"
                  THEN Op(op, p, k, ks, arg,
                          [outcome |-> sv.outcome, value |-> Null, count |-> 0, wrote |-> TRUE])
                  ELSE Op(op, p, k, ks, arg, res)
       /\ steps' = steps + 1
       /\ UNCHANGED <<session, projects, current_project>>

ApiGet == \E p \in Names, k \in Keys :
    Api("get", p, k, {k}, <<>>, get_config(disk, p, k), "ok")

ApiSet(ios) == \E p \in Names, k \in Keys, v \in Values, io \in ios :
    Api("set", p, k, {k}, <<Row(k, v)>>, set_config(disk, p, k, v), io)

ApiDelete(ios) == \E p \in Names, k \in Keys, io \in ios :
    Api("delete", p, k, {k}, <<>>, delete_config(disk, p, k), io)

ApiBatchSet(ios) == \E p \in Names, u \in UpdateDicts, io \in ios :
    Api("batchSet", p, Null, KeysOf(u), u, batch_set_config(disk, p, u), io)

ApiBatchDelete(ios) == \E p \in Names, ks \in KeyLists, io \in ios :
    Api("batchDelete", p, Null, Range(ks), ks, batch_remove_config(disk, p, ks), io)

\* One script run of the UI session triggered by a widget, up to and
\* including the rerun that follows a successful change.  The handlers
\* change st.session_state.projects before they call save_projects(), so a
\* failed save leaves the change in the session.
UiRun(op, p, k, ks, arg, upload, r, io) ==
    LET sv == save_projects(io, file, disk, to_records(r.projects))
    IN /\ steps < MaxSteps
       /\ r.wrote => Fits(r.projects)
       /\ ~r.wrote => io = "ok"
       /\ session' = r.session
       /\ projects' = r.projects
       /\ current_project' = selectbox(r.projects, r.current)
       /\ disk' = IF r.wrote THEN sv.disk ELSE disk
       /\ file' = IF r.wrote THEN sv.file ELSE file
       /\ last' = [Op(op, p, k, ks, arg,
                      [outcome |-> IF r.wrote THEN sv.outcome ELSE r.outcome,
                       value |-> Null, count |-> 0, wrote |-> r.wrote])
                   EXCEPT !.upload = upload]
       /\ steps' = steps + 1

\* a script run that reads no uploaded file
Ui(op, p, k, ks, arg, r, io) == UiRun(op, p, k, ks, arg, NoUpload, r, io)

\* a new browser session, or the next script run of one whose first run
\* raised: lines 18-26 run again
SessionStart ==
    Ui("sessionStart", None, Null, {}, <<>>, session_init(file, disk), "ok")

UiSelect == \E p \in NamesOf(projects) :
    /\ session = "ready"
    /\ Ui("select", p, Null, {}, <<>>, Shown("ok", projects, p), "ok")

UiCreateProject(ios) == \E n \in Names, io \in ios :
    /\ session = "ready"
    /\ Ui("createProject", n, Null, {}, <<>>,
          ui_create_project(projects, current_project, n), io)

UiDeleteProject(ios) == \E c \in Names, io \in ios :
    /\ session = "ready"
    /\ current_project # None
    /\ Ui("deleteProject", current_project, c, {}, <<>>,
          ui_delete_project(projects, current_project, c), io)

UiAdd(ios) == \E k \in Keys, v \in Values, io \in ios :
    /\ session = "ready"
    /\ current_project # None
    /\ Ui("add", current_project, k, {k}, <<Row(k, v)>>,
          ui_add_config(projects, current_project, k, v), io)

UiEdit(ios) == \E k \in Keys, v \in Values, io \in ios :
    /\ session = "ready"
    /\ current_project # None
    /\ k \in KeysOf(FrameAt(projects, current_project).rows)
    /\ Ui("edit", current_project, k, {k}, <<Row(k, v)>>,
          ui_edit_config(projects, current_project, k, v), io)

UiDelete(ios) == \E k \in Keys, io \in ios :
    /\ session = "ready"
    /\ current_project # None
    /\ k \in KeysOf(FrameAt(projects, current_project).rows)
    /\ Ui("uiDelete", current_project, k, {k}, <<>>,
          ui_delete_config(projects, current_project, k), io)

\* a script run of the batch page with the uploaded file u: the parse, and
\* the handler r of the pressed button when the run gets as far as the buttons
UiUpload(op, u, arg, r, io) ==
    LET parsed == parse_upload(u)
    IN UiRun(op, current_project, Null, Range(KeyColumn(parsed.batch_data)), arg,
             <<u.fmt, u.kind>>,
             IF parsed.outcome = "ok" THEN r
             ELSE Shown(parsed.outcome, projects, current_project), io)

UiBatchAdd(ios) == \E u \in Uploads, io \in ios :
    /\ session = "ready"
    /\ current_project # None
    /\ UiUpload("batchAdd", u, parse_upload(u).batch_data,
                ui_batch_add(projects, current_project, parse_upload(u).batch_data), io)

UiBatchDelete(ios) == \E u \in KeyFiles, io \in ios :
    /\ session = "ready"
    /\ current_project # None
    /\ UiUpload("batchRemove", u, KeyColumn(parse_upload(u).batch_data),
                ui_batch_delete(projects, current_project,
                                KeyColumn(parse_upload(u).batch_data)), io)

Step(ios) ==
    \/ ApiGet \/ ApiSet(ios) \/ ApiDelete(ios) \/ ApiBatchSet(ios) \/ ApiBatchDelete(ios)
    \/ SessionStart \/ UiSelect \/ UiCreateProject(ios) \/ UiDeleteProject(ios)
    \/ UiAdd(ios) \/ UiEdit(ios) \/ UiDelete(ios) \/ UiBatchAdd(ios) \/ UiBatchDelete(ios)

\* every call of save_projects() succeeds
Next == Step({"ok"})

Spec == Init /\ [][Next]_vars

\* a call of save_projects() may fail
NextFaults == Step(IoOutcomes)

SpecFaults == Init /\ [][NextFaults]_vars

\* ------------------------------------------------------------- claims
ApiOps == {"get", "set", "delete", "batchSet", "batchDelete"}

UiWrites == {"createProject", "deleteProject", "add", "edit", "uiDelete",
             "batchAdd", "batchRemove"}

MutatingOps == (ApiOps \ {"get"}) \cup UiWrites

UniqueKeys(rows) == Cardinality(KeysOf(rows)) = Len(rows)

\* C1: in every reachable state no project, in the session's store or in
\* the file, holds two entries with the same key.
C1_NoDuplicateKeys ==
    /\ \A i \in 1..Len(disk) : UniqueKeys(disk[i].rows)
    /\ \A i \in 1..Len(projects) : UniqueKeys(projects[i].rows)

\* C2: after a mutating operation (API or UI) has returned successfully,
\* the store held by the UI session equals the store in the file.
C2_SessionEqualsFile ==
    (last.op \in MutatingOps /\ last.outcome = "ok") => to_records(projects) = disk

\* C3: a value get(P,K) reads from the file stays readable, unchanged, across
\* every later successful mutating operation that neither targets K of P nor
\* deletes P.
C3_WritesActOnLatestStore ==
    [][\A p \in Names, k \in Keys :
         ( /\ file = "ok"
           /\ get_config(disk, p, k).outcome = "ok"
           /\ get_config(disk, p, k).value \in Values
           /\ last'.op \in MutatingOps
           /\ last'.outcome = "ok"
           /\ ~(last'.project = p /\ k \in last'.keys)
           /\ ~(last'.op = "deleteProject" /\ last'.project = p) )
         => get_config(disk', p, k) = get_config(disk, p, k)]_vars

\* C4: delete(P,K) called twice in a row on an existing project that was
\* non-empty before the first call: both calls succeed, the second returns
\* null and leaves the store as the first left it.
C4_DeleteIdempotent ==
    [][( /\ last.op = "delete" /\ last.outcome = "ok"
         /\ last'.op = "delete"
         /\ last'.project = last.project /\ last'.key = last.key )
       => ( /\ last'.outcome = "ok"
            /\ last'.value = Null
            /\ disk' = disk )]_vars

\* C5: get(P,K) on a project of the file that has no key K (a project with
\* zero entries included) answers KeyNotFound (404), on a name not in the
\* file ProjectNotFound (404); it fails in no other way and changes nothing.
C5_GetNotFound ==
    [][(last'.op = "get" /\ file = "ok") =>
         /\ disk' = disk /\ file' = file
         /\ last'.project \notin NamesOf(disk) =>
                last'.outcome = "ProjectNotFound" /\ StatusOf(last'.outcome) = 404
         /\ ( /\ last'.project \in NamesOf(disk)
              /\ last'.key \notin KeysOf(RowsOf(disk, last'.project)) ) =>
                last'.outcome = "KeyNotFound" /\ StatusOf(last'.outcome) = 404
         /\ last'.outcome \in {"ok", "ProjectNotFound", "KeyNotFound"}]_vars

\* the project an API request names is in the file and has entries
NonEmptyOnDisk(p) == file = "ok" /\ p \in NamesOf(disk) /\ RowsOf(disk, p) # <<>>

\* C6: set(P,K,V) on a non-empty project succeeds as an upsert (an existing K
\* keeps its place and gets V, an absent K is appended, all other entries
\* stay as they were) and get(P,K) then returns V.
C6_SetUpsertRoundTrip ==
    [][(last'.op = "set" /\ NonEmptyOnDisk(last'.project)) =>
         LET p == last'.project
             k == last'.key
             v == last'.arg[1].value
             old == RowsOf(disk, p)
             new == RowsOf(disk', p)
         IN /\ last'.outcome = "ok"
            /\ IF k \in KeysOf(old)
               THEN /\ Len(new) = Len(old)
                    /\ \A i \in 1..Len(old) :
                         new[i] = IF old[i].key = k THEN Row(k, v) ELSE old[i]
               ELSE new = Append(old, Row(k, v))
            /\ get_config(disk', p, k).outcome = "ok"
            /\ get_config(disk', p, k).value = v]_vars

\* C7: batchSet(P, {K1:V1..Kn:Vn}) on a non-empty project returns
\* updated_items = n, afterwards get(P,Ki) returns Vi for every i, and the
\* entries of P whose keys are not in the mapping are unchanged.
C7_BatchSetCountAndValues ==
    [][(last'.op = "batchSet" /\ NonEmptyOnDisk(last'.project)) =>
         LET p == last'.project
             u == last'.arg
             old == RowsOf(disk, p)
             new == RowsOf(disk', p)
         IN /\ last'.outcome = "ok"
            /\ last'.count = Len(u)
            /\ \A i \in 1..Len(u) :
                 /\ get_config(disk', p, u[i].key).outcome = "ok"
                 /\ get_config(disk', p, u[i].key).value = u[i].value
            /\ DropKeys(new, KeysOf(u)) = DropKeys(old, KeysOf(u))]_vars

\* C8: batchDelete(P, K1..Kn) on a non-empty project returns deleted_items =
\* the number of distinct Ki present in P before the call, afterwards no Ki
\* is present, and every entry whose key is not among the Ki is unchanged.
C8_BatchDeleteCount ==
    [][(last'.op = "batchDelete" /\ NonEmptyOnDisk(last'.project)) =>
         LET p == last'.project
             ks == Range(last'.arg)
             old == RowsOf(disk, p)
             new == RowsOf(disk', p)
         IN /\ last'.outcome = "ok"
            /\ last'.count = Cardinality(ks \cap KeysOf(old))
            /\ KeysOf(new) \cap ks = {}
            /\ new = DropKeys(old, ks)]_vars

C10_EmptyProjectRejected ==
    [][(last'.op \in ApiOps) =>
         /\ ( /\ file = "ok"
              /\ last'.op # "get"
              /\ last'.project \in NamesOf(disk)
              /\ RowsOf(disk, last'.project) = <<>> )
            => ( /\ last'.outcome = "EmptyProject"
                 /\ StatusOf(last'.outcome) = 404
                 /\ disk' = disk /\ file' = file )
         /\ last'.outcome \in {"ProjectNotFound", "KeyNotFound", "EmptyProject"}
            => ( /\ ~last'.wrote
                 /\ disk' = disk /\ file' = file )]_vars

\* a write request on a project with zero entries was answered EmptyProject
C10_Witness ==
    /\ last.op \in {"set", "delete", "batchSet", "batchDelete"}
    /\ last.outcome = "EmptyProject"
    /\ last.project \in NamesOf(disk)
    /\ RowsOf(disk, last.project) = <<>>

\* C11: when save_projects() fails during a mutating operation, the
\* operation is reported as failed and its change is applied nowhere: the
\* file still holds the store persisted before the operation, and the store
\* of the calling session does not hold the change either.
C11_FailedSaveAppliesNothing ==
    [][(last'.op \in MutatingOps /\ last'.wrote /\ last'.outcome # "ok") =>
         /\ last'.outcome = "StorageError"
         /\ file' = file /\ disk' = disk
         /\ projects' = projects]_vars

\* the projects of the file other than p are the same before and after
OthersKeptOnDisk(p) ==
    \A q \in (NamesOf(disk) \cup NamesOf(disk')) \ {p} :
        /\ q \in NamesOf(disk) /\ q \in NamesOf(disk')
        /\ RowsOf(disk', q) = RowsOf(disk, q)

\* C12: createProject on a taken name answers AlreadyExists and changes
\* nothing in the session or the file; on a free name it adds a project with
\* zero entries, leaves every other project unchanged, and persists.
C12_CreateProject ==
    [][(last'.op = "createProject") =>
         LET n == last'.project
         IN IF n \in NamesOf(projects)
            THEN /\ last'.outcome = "AlreadyExists"
                 /\ ~last'.wrote
                 /\ projects' = projects
                 /\ disk' = disk /\ file' = file
            ELSE /\ last'.outcome = "ok"
                 /\ projects' = Append(projects, FrameOf(n, <<>>))
                 /\ file' = "ok"
                 /\ n \in NamesOf(disk') /\ RowsOf(disk', n) = <<>>
                 /\ OthersKeptOnDisk(n)]_vars

\* C13: deleteProject with a confirmation other than the selected project's
\* name answers ConfirmationMismatch, saves nothing and changes nothing; with
\* the selected project's name it removes exactly that project, leaves the
\* others unchanged, and persists.
C13_DeleteProject ==
    [][(last'.op = "deleteProject") =>
         LET cur == current_project
             confirm == last'.key
         IN IF confirm # cur
            THEN /\ last'.outcome = "ConfirmationMismatch"
                 /\ ~last'.wrote
                 /\ projects' = projects
                 /\ disk' = disk /\ file' = file
            ELSE /\ last'.outcome = "ok"
                 /\ projects' = SelectSeq(projects, LAMBDA f : f.name # cur)
                 /\ file' = "ok"
                 /\ cur \notin NamesOf(disk')
                 /\ OthersKeptOnDisk(cur)]_vars

\* C14: saving the session's store and loading it again (a restart) gives
\* the same project names in the same order and, per project, the same
\* entries, also for a project with zero entries, and every operation acts
\* on the reloaded store as it would have on the store that was saved.
C14_SaveLoadRoundTrip ==
    session = "ready" =>
        LET back == load_projects(to_records(projects))
        IN /\ Len(back) = Len(projects)
           /\ \A i \in 1..Len(projects) :
                /\ back[i].name = projects[i].name
                /\ back[i].rows = projects[i].rows
           /\ \A p \in NamesOf(projects), k \in Keys, v \in Values :
                /\ ui_add_config(back, p, k, v).outcome
                       = ui_add_config(projects, p, k, v).outcome
                /\ ui_batch_delete(back, p, <<k>>).outcome
                       = ui_batch_delete(projects, p, <<k>>).outcome

\* the API request recorded in l, run on the file contents data
api_apply(l, data) ==
    CASE l.op = "set" -> set_config(data, l.project, l.key, l.arg[1].value)
      [] l.op = "delete" -> delete_config(data, l.project, l.key)
      [] l.op = "batchSet" -> batch_set_config(data, l.project, l.arg)
      [] l.op = "batchDelete" -> batch_remove_config(data, l.project, l.arg)

\* the UI operation recorded in l, run on the store projs with cur selected
ui_apply(l, projs, cur) ==
    CASE l.op = "createProject" -> ui_create_project(projs, cur, l.project)
      [] l.op = "deleteProject" -> ui_delete_project(projs, cur, l.key)
      [] l.op = "add" -> ui_add_config(projs, cur, l.key, l.arg[1].value)
      [] l.op = "edit" -> ui_edit_config(projs, cur, l.key, l.arg[1].value)
      [] l.op = "uiDelete" -> ui_delete_config(projs, cur, l.key)
      [] l.op = "batchAdd" -> ui_batch_add(projs, cur, l.arg)
      [] l.op = "batchRemove" -> ui_batch_delete(projs, cur, l.arg)

\* C15: no operation runs between the load and the save of another one, so
\* two mutating operations issued on the same store end in the file a serial
\* order of the two gives.  Stated for an API request A and a UI operation B
\* that both start from the store the session loaded: A has run on it and
\* succeeded, B succeeds next, and the file must then hold B applied to A's
\* result or A applied to B's result.
C15_SerialOutcome ==
    [][( /\ file = "ok" /\ session = "ready"
         /\ last.op \in (ApiOps \ {"get"}) /\ last.outcome = "ok"
         /\ api_apply(last, to_records(projects)).outcome = "ok"
         /\ api_apply(last, to_records(projects)).data = disk
         /\ last'.op \in UiWrites /\ last'.outcome = "ok" )
       => LET ab == ui_apply(last', load_projects(disk), current_project)
              ba == api_apply(last, disk')
          IN \/ ab.outcome = "ok" /\ ab.wrote /\ disk' = to_records(ab.projects)
             \/ ba.outcome = "ok" /\ disk' = ba.data]_vars

\* the frames of every project but p are the same before and after
OthersKeptInSession(p) ==
    /\ Len(projects') = Len(projects)
    /\ \A i \in 1..Len(projects) :
           projects[i].name # p => projects'[i] = projects[i]

\* C16: a single add of (K, V) from the UI to the selected project is rejected
\* with KeyAlreadyExists, changing and saving nothing, when K is a key of the
\* project; otherwise, also when the project has no entries, (K, V) is
\* appended after the existing entries, nothing else changes and the store
\* is written to the file.
C16_SingleAdd ==
    [][(last'.op = "add") =>
          LET P == current_project
              before == RowsOf(projects, P)
          IN IF last'.key \in KeysOf(before)
             THEN /\ last'.outcome = "KeyAlreadyExists"
                  /\ ~last'.wrote
                  /\ projects' = projects /\ disk' = disk /\ file' = file
             ELSE /\ last'.outcome = "ok"
                  /\ RowsOf(projects', P) = Append(before, last'.arg[1])
                  /\ OthersKeptInSession(P)
                  /\ file' = "ok" /\ disk' = to_records(projects')]_vars

\* C17: an import whose payload does not parse or does not pass the schema
\* check (a CSV file without both columns, a YAML or JSON root that is not a
\* flat mapping, malformed text) is reported as an error and changes neither
\* the session's store nor the file: no merge and no removal is applied
\* from it.
C17_BadImportChangesNothing ==
    [][( /\ last'.op \in {"batchAdd", "batchRemove"}
         /\ last'.upload[2] # "rows" )
       => /\ last'.outcome # "ok"
          /\ ~last'.wrote
          /\ projects' = projects /\ disk' = disk /\ file' = file]_vars

\* C18: removal by import on the selected project removes every entry whose
\* key is in the imported key column, keeps the other entries in their
\* order, writes the store to the file, and does not fail when an imported
\* key is not in the project, also when the project has no entries.
C18_SubtractiveRemoval ==
    [][( /\ last'.op = "batchRemove"
         /\ last'.upload[2] = "rows" )
       => LET P == current_project
          IN /\ last'.outcome = "ok"
             /\ RowsOf(projects', P) = DropKeys(RowsOf(projects, P), last'.keys)
             /\ OthersKeptInSession(P)
             /\ file' = "ok" /\ disk' = to_records(projects')]_vars

\* C19: a missing file reads as the empty store only when a session starts;
\* an API request whose load finds the file missing or malformed fails with
\* StorageError, not with ProjectNotFound and not by acting on an empty
\* store, and neither creates nor writes the file.
C19_MissingOrMalformedFile ==
    [][ /\ (last'.op \in ApiOps /\ file # "ok")
           => /\ last'.outcome = "StorageError"
              /\ ~last'.wrote
              /\ file' = file /\ disk' = disk
        /\ (last'.op = "sessionStart" /\ file = "missing")
           => /\ projects' = <<>> /\ session' = "ready"
              /\ file' = "missing" ]_vars

\* a write request arrived while the file did not exist; it failed and the
\* file still does not exist
C19_Witness ==
    /\ last.op \in (ApiOps \ {"get"})
    /\ last.outcome = "StorageError"
    /\ ~last.wrote
    /\ file = "missing"

\* C20: an API request on project P, whether it succeeds or fails, leaves
\* the project names of the persisted store as they were and the entries of
\* every project other than P as they were.
C20_ApiFrame ==
    [][(last'.op \in ApiOps) =>
          /\ NamesOf(disk') = NamesOf(disk)
          /\ OthersKeptOnDisk(last'.project)]_vars

EntryOps == {"add", "edit", "uiDelete", "batchAdd", "batchRemove"}

\* C21: in a UI session the selected project is none or a project of the
\* session's store, in particular where an entry-level or delete-project
\* action is applied; after a successful createProject it is the new
\* project, and after a successful deleteProject it is the first remaining
\* project, or none when no project remains.
C21_SelectedProject ==
    [][ /\ current_project' \in {None} \cup NamesOf(projects')
        /\ (last'.op \in EntryOps \cup {"deleteProject"})
           => current_project \in NamesOf(projects)
        /\ (last'.op = "createProject" /\ last'.outcome = "ok")
           => /\ current_project' = last'.project
              /\ last'.project \in NamesOf(projects')
        /\ (last'.op = "deleteProject" /\ last'.outcome = "ok")
           => /\ current_project \notin NamesOf(projects')
              /\ current_project' = IF projects' = <<>> THEN None
                                    ELSE projects'[1].name ]_vars

\* the selected one of two projects was deleted and the remaining one is
\* selected
C21_Witness ==
    /\ last.op = "deleteProject" /\ last.outcome = "ok"
    /\ last.project \notin NamesOf(projects)
    /\ projects # <<>>
    /\ current_project = projects[1].name

====
